---- MODULE Spec2Model ----
(***************************************************************************)
(* Model of the Animator core engine (src/src/core/lib.rs).                *)
(*                                                                         *)
(* AnimatorEngine holds a scene graph (a Vec of SceneNode) and the GPU     *)
(* resources established by initialize(): device, queue, render pipeline   *)
(* and the shader modules.  The public operations are initialize (async,   *)
(* two suspension points: request_adapter and request_device), add_node,   *)
(* render_frame, get_scene_graph and evaluate_scene.                       *)
(*                                                                         *)
(* The host (window, document, canvas) and the graphics backend are the    *)
(* environment: every call into them draws its outcome from the set of     *)
(* outcomes the call can have.  The adapter is requested with              *)
(* compatible_surface, so the surface capabilities read at lines 177-186   *)
(* are non-empty and the indexing there does not fail.                     *)
(*                                                                         *)
(* initialize() is one future at a time (it borrows the engine mutably);   *)
(* the other calls are allowed to run while it is suspended, which is the  *)
(* weakest assumption about the host's scheduling.  render_frame is async  *)
(* but contains no await, so it runs to completion in one step.            *)
(*                                                                         *)
(* f64 times are modelled by the tokens of Times; the code performs no     *)
(* arithmetic on them, it only stores and returns them.                    *)
(***************************************************************************)
EXTENDS Integers, Sequences, FiniteSets, TLC

VARIABLES
    scene_graph,      \* AnimatorEngine.scene_graph : Vec<SceneNode>
    gpu_device,       \* AnimatorEngine.gpu_device : Option<wgpu::Device>
    gpu_queue,        \* AnimatorEngine.gpu_queue : Option<wgpu::Queue>
    render_pipeline,  \* AnimatorEngine.render_pipeline : Option<wgpu::RenderPipeline>
    shader_modules,   \* AnimatorEngine.shader_modules : HashMap<String, ShaderModule>
    init_pc,          \* position of the pending initialize() future
    devices_created,  \* devices handed out by the backend so far
    queue_submitted,  \* command buffers submitted to the queue, oldest first
    presented,        \* surface textures presented
    last_call,        \* the most recent call that returned, with its result
    eval_seen         \* the first evaluate_scene call since the last add_node: its
                      \* time, its output, and whether the backend was established

vars == <<scene_graph, gpu_device, gpu_queue, render_pipeline, shader_modules,
          init_pc, devices_created, queue_submitted, presented, last_call,
          eval_seen>>

engine == <<scene_graph, gpu_device, gpu_queue, render_pipeline, shader_modules>>

backend == <<gpu_device, gpu_queue, render_pipeline, shader_modules>>

-----------------------------------------------------------------------------
(* Bounds *)

MaxNodes == 2

MaxInits == 2

MaxFrames == 2

-----------------------------------------------------------------------------
(* Input domains *)

NodeIds == {"a", "b"}

NodeNames == {"layer"}

NodeTypes == {"rectangle"}

PropertyValues == {"null", "{x:1}"}

Times == {"1.5", "NaN"}

FiniteTimes == {"1.5"}

Widths == {640}

Heights == {480}

FrameRates == {60}

None == [none |-> TRUE]

SceneNode == [id : NodeIds, name : NodeNames, node_type : NodeTypes,
              properties : PropertyValues]

(* The nodes handed to add_node: two that share an id and differ in their  *)
(* properties, and one with another id.                                    *)
Nodes == {n \in SceneNode : n.id = "a" \/ n.properties # "null"}

RenderContext == [time : Times, frame_rate : FrameRates, width : Widths,
                  height : Heights]

HostOutcomes == {"ok", "no_window", "no_document", "no_canvas", "not_canvas",
                 "surface_error"}

FrameOutcomes == HostOutcomes \cup {"texture_error"}

-----------------------------------------------------------------------------
(* Results of calls *)

Ok(op, arg, value) == [op |-> op, ok |-> TRUE, err |-> "", arg |-> arg, value |-> value]

Err(op, msg) == [op |-> op, ok |-> FALSE, err |-> msg, arg |-> None, value |-> None]

NoCall == [op |-> "new", ok |-> TRUE, err |-> "", arg |-> None, value |-> None]

(* The message of the first host lookup that fails: window, document,      *)
(* canvas element, its cast, then the surface.  "" when all succeed.       *)
host_error(outcome) ==
    CASE outcome = "no_window"     -> "No global window exists"
      [] outcome = "no_document"   -> "Should have a document on window"
      [] outcome = "no_canvas"     -> "No canvas element found"
      [] outcome = "not_canvas"    -> "Canvas element is not an HtmlCanvasElement"
      [] outcome = "surface_error" -> "Failed to create surface"
      [] OTHER                     -> ""

Initialized == gpu_device # None /\ gpu_queue # None /\ render_pipeline # None

Created == gpu_device = None /\ gpu_queue = None /\ render_pipeline = None

-----------------------------------------------------------------------------
(* AnimatorEngine::new *)

Init ==
    /\ scene_graph = <<>>
    /\ gpu_device = None
    /\ gpu_queue = None
    /\ render_pipeline = None
    /\ shader_modules = <<>>
    /\ init_pc = "idle"
    /\ devices_created = 0
    /\ queue_submitted = <<>>
    /\ presented = 0
    /\ last_call = NoCall
    /\ eval_seen = None

-----------------------------------------------------------------------------
(* AnimatorEngine::initialize *)

insert(map, key, value) ==
    [k \in (DOMAIN map) \cup {key} |-> IF k = key THEN value ELSE map[k]]

InitializeFail(msg) ==
    /\ init_pc' = "idle"
    /\ last_call' = Err("initialize", msg)
    /\ UNCHANGED <<engine, devices_created, queue_submitted, presented, eval_seen>>

(* Up to the first await: instance, window, document, canvas, surface,     *)
(* then request_adapter is issued and the future suspends.                 *)
InitializeStart(outcome) ==
    /\ init_pc = "idle"
    /\ IF host_error(outcome) # ""
         THEN InitializeFail(host_error(outcome))
         ELSE /\ init_pc' = "await_adapter"
              /\ UNCHANGED <<engine, devices_created, queue_submitted, presented,
                             last_call, eval_seen>>

(* request_adapter resolves; on success request_device is issued and the   *)
(* future suspends again.                                                  *)
InitializeAdapter(found) ==
    /\ init_pc = "await_adapter"
    /\ IF ~found
         THEN InitializeFail("Failed to find an appropriate adapter")
         ELSE /\ init_pc' = "await_device"
              /\ UNCHANGED <<engine, devices_created, queue_submitted, presented,
                             last_call, eval_seen>>

StoreGpuResources_forgetsPipeline(h) ==
    /\ gpu_device' = [device |-> h]
    /\ gpu_queue' = [queue |-> h]
    /\ render_pipeline' = render_pipeline
    /\ shader_modules' =
          insert(insert(shader_modules, "rectangle_vs", [module |-> h, stage |-> "vs"]),
                 "rectangle_fs", [module |-> h, stage |-> "fs"])

(* "Store GPU resources": the three fields and the two shader modules are  *)
(* assigned with no suspension point between them.                         *)
StoreGpuResources(h) ==
    /\ gpu_device' = [device |-> h]
    /\ gpu_queue' = [queue |-> h]
    /\ render_pipeline' = [pipeline |-> h]
    /\ shader_modules' =
          insert(insert(shader_modules, "rectangle_vs", [module |-> h, stage |-> "vs"]),
                 "rectangle_fs", [module |-> h, stage |-> "fs"])

(* request_device resolves; on success the surface is configured, the      *)
(* shaders and the pipeline are created on the new device and stored.      *)
InitializeDevice(granted) ==
    /\ init_pc = "await_device"
    /\ IF ~granted
         THEN InitializeFail("Failed to create device")
         ELSE /\ devices_created < MaxInits
              /\ devices_created' = devices_created + 1
              /\ StoreGpuResources(devices_created + 1)
              /\ init_pc' = "idle"
              /\ last_call' = Ok("initialize", None, None)
              /\ UNCHANGED <<scene_graph, queue_submitted, presented, eval_seen>>

-----------------------------------------------------------------------------
(* AnimatorEngine::add_node *)

AddNode(node) ==
    /\ Len(scene_graph) < MaxNodes
    /\ scene_graph' = Append(scene_graph, node)
    /\ last_call' = Ok("add_node", None, None)
    /\ eval_seen' = None
    /\ UNCHANGED <<backend, init_pc, devices_created, queue_submitted, presented>>

-----------------------------------------------------------------------------
(* AnimatorEngine::render_frame *)

(* The first of the three ok_or checks on the stored resources that fails, *)
(* then the host lookups, then the surface texture.                        *)
render_frame_error(outcome) ==
    IF gpu_device = None THEN "GPU device not initialized"
    ELSE IF gpu_queue = None THEN "GPU queue not initialized"
    ELSE IF render_pipeline = None THEN "Render pipeline not initialized"
    ELSE IF host_error(outcome) # "" THEN host_error(outcome)
    ELSE IF outcome = "texture_error" THEN "Failed to get surface texture"
    ELSE ""

(* The render pass: set_pipeline, then draw(0..6, 0..1).                   *)
render_pass(pipeline, graph) ==
    <<[pipeline |-> pipeline, vertices |-> <<0, 6>>, instances |-> <<0, 1>>]>>

frame_data_swapped(context) ==
    [width |-> context.height, height |-> context.width,
     timestamp |-> context.time, rendered |-> TRUE]

(* The frame metadata object built from the context.                       *)
frame_data(context) ==
    [width |-> context.width, height |-> context.height,
     timestamp |-> context.time, rendered |-> TRUE]

RenderFrameFailed_dropsDevice(context, msg) ==
    /\ last_call' = Err("render_frame", msg)
    /\ gpu_device' = None
    /\ UNCHANGED <<scene_graph, gpu_queue, render_pipeline, shader_modules,
                   init_pc, devices_created, queue_submitted, presented, eval_seen>>

(* An early return through the ? operator: render_frame borrows the engine immutably, *)
(* nothing was submitted yet.                                              *)
RenderFrameFailed(context, msg) ==
    /\ last_call' = Err("render_frame", msg)
    /\ UNCHANGED <<engine, init_pc, devices_created, queue_submitted, presented,
                   eval_seen>>

RenderFrame(context, outcome) ==
    IF render_frame_error(outcome) # ""
      THEN RenderFrameFailed(context, render_frame_error(outcome))
      ELSE /\ Len(queue_submitted) < MaxFrames
           /\ queue_submitted' =
                 Append(queue_submitted, render_pass(render_pipeline, scene_graph))
           /\ presented' = presented + 1
           /\ last_call' = Ok("render_frame", context, frame_data(context))
           /\ UNCHANGED <<engine, init_pc, devices_created, eval_seen>>

-----------------------------------------------------------------------------
(* AnimatorEngine::get_scene_graph *)

(* serde serialisation of a SceneNode: an object with the four fields.     *)
to_value(node) ==
    [id |-> node.id, name |-> node.name, node_type |-> node.node_type,
     properties |-> node.properties]

GetSceneGraph ==
    /\ last_call' = Ok("get_scene_graph", None,
                       [nodes |-> [i \in 1..Len(scene_graph) |-> to_value(scene_graph[i])]])
    /\ UNCHANGED <<engine, init_pc, devices_created, queue_submitted, presented,
                   eval_seen>>

-----------------------------------------------------------------------------
(* AnimatorEngine::evaluate_scene *)

evaluate_properties_afterBackend(properties, time) ==
    IF gpu_device = None THEN properties ELSE "null"

(* Returns the properties as they are.                                     *)
evaluate_properties(properties, time) == properties

evaluate_node(node, time) ==
    [id |-> node.id, name |-> node.name, node_type |-> node.node_type,
     properties |-> evaluate_properties(node.properties, time)]

RECURSIVE evaluated_nodes(_, _)
(* The loop over &self.scene_graph, pushing each evaluated node.           *)
evaluated_nodes(graph, time) ==
    IF graph = <<>> THEN <<>>
    ELSE <<evaluate_node(Head(graph), time)>> \o evaluated_nodes(Tail(graph), time)

RECURSIVE reversed(_)
reversed(s) == IF s = <<>> THEN <<>> ELSE Append(reversed(Tail(s)), Head(s))

evaluate_scene_reversed(graph, time) ==
    [time |-> time,
     node_count |-> Len(evaluated_nodes(graph, time)),
     nodes |-> [i \in 1..Len(graph) |-> to_value(reversed(evaluated_nodes(graph, time))[i])]]

(* The result object: time, node_count and the nodes.  The module targets  *)
(* wasm32, where usize is 32 bits wide, so `len() as u32` keeps the value. *)
evaluate_scene(graph, time) ==
    [time |-> time,
     node_count |-> Len(evaluated_nodes(graph, time)),
     nodes |-> [i \in 1..Len(graph) |-> to_value(evaluated_nodes(graph, time)[i])]]

EvaluateScene(time) ==
    /\ last_call' = Ok("evaluate_scene", [time |-> time], evaluate_scene(scene_graph, time))
    /\ eval_seen' = IF eval_seen = None
                      THEN [time |-> time,
                            output |-> evaluate_scene(scene_graph, time),
                            backend_ready |-> Initialized]
                      ELSE eval_seen
    /\ UNCHANGED <<engine, init_pc, devices_created, queue_submitted, presented>>

-----------------------------------------------------------------------------

Next ==
    \/ \E outcome \in HostOutcomes : InitializeStart(outcome)
    \/ \E found \in BOOLEAN : InitializeAdapter(found)
    \/ \E granted \in BOOLEAN : InitializeDevice(granted)
    \/ \E node \in Nodes : AddNode(node)
    \/ \E context \in RenderContext, outcome \in FrameOutcomes : RenderFrame(context, outcome)
    \/ GetSceneGraph
    \/ \E time \in Times : EvaluateScene(time)

Spec == Init /\ [][Next]_vars

-----------------------------------------------------------------------------
(* Properties *)

NodeCount == Len(scene_graph)

LastSubmitted == queue_submitted[Len(queue_submitted)]

(* C1: on an engine where no initialize() has completed, render_frame      *)
(* fails with the error BackendNotReady, submits no command buffer and     *)
(* presents no frame.                                                      *)
C1_RenderBeforeInitializeIsBackendNotReady ==
    (last_call.op = "render_frame" /\ ~Initialized) =>
        /\ ~last_call.ok
        /\ last_call.err = "BackendNotReady"
        /\ queue_submitted = <<>>
        /\ presented = 0

(* C2: add_node of an id already present is rejected, so no two nodes of   *)
(* the graph ever carry the same id.                                       *)
C2_NoTwoNodesShareAnId ==
    \A i, j \in 1..NodeCount : i # j => scene_graph[i].id # scene_graph[j].id

(* C3: once the engine is Initialized, a further initialize() leaves the   *)
(* device, queue, pipeline and shader modules of the first call in place   *)
(* and obtains no new device from the backend.                             *)
C3_InitializeIdempotent ==
    [][Initialized => (backend' = backend /\ devices_created' = devices_created)]_vars

(* C4: evaluate_scene leaves the scene graph as it was, and its output     *)
(* equals the output of the first evaluate_scene call made since the last  *)
(* add_node, and that of the call just before it, whenever the two were    *)
(* given the same time, whatever other calls (initialize, render_frame,    *)
(* get_scene_graph, evaluate_scene at another time) were made in between.  *)
C4_EvaluateSceneDeterministic ==
    [][last_call'.op = "evaluate_scene" =>
          /\ scene_graph' = scene_graph
          /\ (eval_seen # None /\ eval_seen.time = last_call'.arg.time) =>
                 last_call'.value = eval_seen.output
          /\ (last_call.op = "evaluate_scene" /\ last_call.arg = last_call'.arg) =>
                 last_call'.value = last_call.value]_vars

C4_Witness ==
    /\ last_call.op = "evaluate_scene"
    /\ last_call.ok
    /\ eval_seen # None
    /\ eval_seen.time = last_call.arg.time
    /\ ~eval_seen.backend_ready
    /\ Initialized
    /\ queue_submitted # <<>>
    /\ NodeCount = 2

(* C5: a render_frame that returns an error leaves the scene graph, the    *)
(* device, the queue, the pipeline and the shader modules as they were,    *)
(* hence the lifecycle state too.                                          *)
C5_FailedRenderLeavesEngineIntact ==
    [][(last_call'.op = "render_frame" /\ ~last_call'.ok) =>
          (engine' = engine /\ Initialized' = Initialized)]_vars

C5_Witness ==
    /\ last_call.op = "render_frame"
    /\ ~last_call.ok
    /\ last_call.err = "Failed to get surface texture"
    /\ Initialized
    /\ NodeCount > 0

(* C6: in every engine state, evaluate_scene at a finite time succeeds and *)
(* returns the query time, the number of nodes of the graph, and the nodes *)
(* in insertion order, each with the id, name, node_type and properties of *)
(* its source node.                                                        *)
C6_EvaluateSceneMirrorsGraph ==
    (last_call.op = "evaluate_scene" /\ last_call.arg.time \in FiniteTimes) =>
        /\ last_call.ok
        /\ last_call.value.time = last_call.arg.time
        /\ last_call.value.node_count = NodeCount
        /\ DOMAIN last_call.value.nodes = 1..NodeCount
        /\ \A i \in 1..NodeCount :
              /\ last_call.value.nodes[i].id = scene_graph[i].id
              /\ last_call.value.nodes[i].name = scene_graph[i].name
              /\ last_call.value.nodes[i].node_type = scene_graph[i].node_type
              /\ last_call.value.nodes[i].properties = scene_graph[i].properties

C6_Witness ==
    /\ last_call.op = "evaluate_scene"
    /\ last_call.arg.time \in FiniteTimes
    /\ Created
    /\ NodeCount = 2
    /\ scene_graph[1] # scene_graph[2]

(* C7: a submitted frame holds one draw command per node of the graph.     *)
C7_OneDrawPerNode ==
    (last_call.op = "render_frame" /\ last_call.ok) =>
        Len(LastSubmitted) = NodeCount

(* C8: a render_frame that completes returns rendered = true and the       *)
(* width, height and time of the context it was given.                     *)
C8_FrameMetadataMatchesContext ==
    (last_call.op = "render_frame" /\ last_call.ok) =>
        /\ Initialized
        /\ last_call.value.rendered = TRUE
        /\ last_call.value.width = last_call.arg.width
        /\ last_call.value.height = last_call.arg.height
        /\ last_call.value.timestamp = last_call.arg.time

C8_Witness ==
    /\ last_call.op = "render_frame"
    /\ last_call.ok
    /\ Len(queue_submitted) = 2
    /\ NodeCount > 0

(* C9: evaluate_scene fails with InvalidInput exactly when the query time  *)
(* is not a finite number.                                                 *)
C9_NaNTimeIsInvalidInput ==
    last_call.op = "evaluate_scene" =>
        IF last_call.arg.time \in FiniteTimes
          THEN last_call.ok
          ELSE ~last_call.ok /\ last_call.err = "InvalidInput"

(* C10: in every state, the suspension points of initialize() included,    *)
(* device, queue and pipeline are all set or all unset, and an             *)
(* initialize() that fails leaves them as they were.                       *)
C10_BackendAllOrNothing ==
    /\ [](Created \/ Initialized)
    /\ [][(last_call'.op = "initialize" /\ ~last_call'.ok) => backend' = backend]_vars

C10_Witness ==
    /\ init_pc = "await_device"
    /\ Initialized
    /\ last_call.op = "initialize"
    /\ ~last_call.ok

====
